---- MODULE Spec2Model ----
(***************************************************************************)
(* Model of markup5ever's input_stream.rs: the InputStream and the         *)
(* DecodingParser that arbitrates between the network input stream, the    *)
(* stack of document.write transactions and the input deferred while a     *)
(* parser-blocking script is pending.                                      *)
(*                                                                         *)
(* A chunk (StrTendril) is a sequence of characters, a BufferQueue is a    *)
(* sequence of non-empty chunks.  Every public method is one atomic        *)
(* action: the type is single-threaded (RefCell, &self).                   *)
(*                                                                         *)
(* DriverSpec models html5ever's driver.rs: Parser::process and            *)
(* Parser::finish, one step per iteration of their feed loops.             *)
(***************************************************************************)
EXTENDS Integers, Sequences, FiniteSets, TLC

\* ---------------------------------------------------------------- bounds
MaxChunks == 2
MaxWrites == 2

\* the texts a host passes in: empty, one character, several characters
Texts == {<<>>, <<"a">>, <<"a", "b">>}

VARIABLES
    debug_assertions,      \* build profile: are debug_assert! checks compiled in
    document_write_input,  \* Vec<BufferQueue>, the transaction stack
    script_input,          \* BufferQueue, the deferred-script queue
    input_stream,          \* InputStream.input
    parse_iter,            \* an iterator returned by parse() is alive
    nWrites,               \* document_write calls that returned a sequence
    nEnds,                 \* end_document_write_transaction calls that returned
    appended,              \* text appended so far, while only append wrote
    pure,                  \* only append has touched the input stream so far
    last,                  \* the call made by the last step and its outcome
    input_buffer,          \* Parser.input_buffer of the synchronous driver
    pc,                    \* where the driver is: idle, in process, in finish
    tok_result,            \* what the last tokenizer.feed of this call returned
    saw_script,            \* a feed of this call returned Script
    feed_parity,           \* number of tokenizer.feed calls so far, modulo 2
    eof,                   \* tokenizer.end() has been called
    engine_progress        \* every Script result consumes some input

vars == <<debug_assertions, document_write_input, script_input, input_stream,
          parse_iter, nWrites, nEnds, appended, pure, last,
          input_buffer, pc, tok_result, saw_script, feed_parity, eof,
          engine_progress>>

coord == <<debug_assertions, document_write_input, script_input, input_stream,
           parse_iter, nWrites, nEnds, appended, pure, last>>

drv == <<input_buffer, pc, tok_result, saw_script, feed_parity, eof,
          engine_progress>>

queues == <<document_write_input, script_input, input_stream>>

\* ------------------------------------------------- BufferQueue primitives
is_empty(q) == q = <<>>

\* push_back ignores an empty chunk
push_back(q, chunk) == IF chunk = <<>> THEN q ELSE Append(q, chunk)

\* pop_front: the chunk removed and the queue left (caller checks is_empty)
pop_front(q) == [chunk |-> Head(q), rest |-> Tail(q)]

\* swap_with exchanges the whole content of two queues
swap_with(a, b) == [self |-> b, other |-> a]

\* while let Some(chunk) = src.pop_front() { dst.push_back(chunk) }
RECURSIVE move_all(_, _)
move_all(src, dst) ==
    IF is_empty(src) THEN dst
    ELSE move_all(pop_front(src).rest, push_back(dst, pop_front(src).chunk))

\* popping a queue front to back and concatenating the chunks
RECURSIVE Drain(_)
Drain(q) == IF is_empty(q) THEN <<>> ELSE pop_front(q).chunk \o Drain(pop_front(q).rest)

RECURSIVE CharLen(_)
CharLen(q) == IF q = <<>> THEN 0 ELSE Len(Head(q)) + CharLen(Tail(q))

\* the queue after the engine took k characters off its front
RECURSIVE DropChars(_, _)
DropChars(q, k) ==
    IF k = 0 \/ q = <<>> THEN q
    ELSE IF Len(Head(q)) <= k THEN DropChars(Tail(q), k - Len(Head(q)))
    ELSE <<SubSeq(Head(q), k + 1, Len(Head(q)))>> \o Tail(q)

\* InputSink::feed(queue).next(): the engine drains some prefix of the queue
\* and either yields a HandleScript action or reports that it has none
Feed(q) ==
    {[queue |-> DropChars(q, k), action |-> a, consumed |-> k] :
        k \in 0..CharLen(q), a \in {"some", "none"}}

\* ------------------------------------------------------------ InputStream
append_front(input, data) == IF data = <<>> THEN input ELSE <<data>> \o input

append(input, data) == push_back(input, data)

clear(input) == <<>>

\* --------------------------------------------------------- DecodingParser
parse_unchecked(dbg, si) == [result |-> "ok", fed |-> "input_stream"]

parse(dbg, si) ==
    IF dbg /\ ~is_empty(si)
    THEN [result |-> "panic", fed |-> "none"]
    ELSE [result |-> "ok", fed |-> "input_stream"]

document_write_unchecked(dbg, stack, si, input) ==
    [result |-> "ok", stack |-> Append(stack, push_back(<<>>, input))]

document_write_push_first(dbg, stack, si, input) ==
    [result |-> IF dbg /\ ~is_empty(si) THEN "panic" ELSE "ok",
     stack |-> Append(stack, push_back(<<>>, input))]

document_write_twice(dbg, stack, si, input) ==
    IF dbg /\ ~is_empty(si)
    THEN [result |-> "panic", stack |-> stack]
    ELSE [result |-> "ok",
          stack |-> Append(Append(stack, <<>>), push_back(<<>>, input))]

document_write_shared(dbg, stack, si, input) ==
    IF dbg /\ ~is_empty(si)
    THEN [result |-> "panic", stack |-> stack]
    ELSE [result |-> "ok",
          stack |-> IF stack = <<>> THEN <<push_back(<<>>, input)>>
                    ELSE [stack EXCEPT ![Len(stack)] = push_back(@, input)]]

document_write(dbg, stack, si, input) ==
    IF dbg /\ ~is_empty(si)
    THEN [result |-> "panic", stack |-> stack]
    ELSE [result |-> "ok", stack |-> Append(stack, push_back(<<>>, input))]

\* the closure of document_write: one call of next() on a returned sequence
document_write_next_first(stack) ==
    IF stack = <<>>
    THEN {[result |-> "panic", stack |-> stack, consumed |-> 0]}
    ELSE {[result |-> f.action, stack |-> [stack EXCEPT ![1] = f.queue],
           consumed |-> f.consumed] : f \in Feed(stack[1])}

document_write_next_fallback(stack) ==
    IF stack = <<>>
    THEN {[result |-> "none", stack |-> stack, consumed |-> 0]}
    ELSE {[result |-> f.action, stack |-> [stack EXCEPT ![Len(stack)] = f.queue],
           consumed |-> f.consumed] : f \in Feed(stack[Len(stack)])}

document_write_next(stack) ==
    IF stack = <<>>
    THEN {[result |-> "panic", stack |-> stack, consumed |-> 0]}
    ELSE {[result |-> f.action, stack |-> [stack EXCEPT ![Len(stack)] = f.queue],
           consumed |-> f.consumed] : f \in Feed(stack[Len(stack)])}

end_document_write_transaction_front(stack, si) ==
    IF stack = <<>>
    THEN [result |-> "panic", stack |-> stack, script_input |-> si]
    ELSE [result |-> "ok",
          stack |-> SubSeq(stack, 1, Len(stack) - 1),
          script_input |-> stack[Len(stack)] \o si]

end_document_write_transaction_oldest(stack, si) ==
    IF stack = <<>>
    THEN [result |-> "panic", stack |-> stack, script_input |-> si]
    ELSE [result |-> "ok",
          stack |-> Tail(stack),
          script_input |-> move_all(Head(stack), si)]

end_document_write_transaction_silent(stack, si) ==
    IF stack = <<>>
    THEN [result |-> "ok", stack |-> stack, script_input |-> si]
    ELSE [result |-> "ok",
          stack |-> SubSeq(stack, 1, Len(stack) - 1),
          script_input |-> move_all(stack[Len(stack)], si)]

end_document_write_transaction_drop(stack, si) ==
    IF stack = <<>>
    THEN [result |-> "panic", stack |-> stack, script_input |-> si]
    ELSE [result |-> "ok",
          stack |-> SubSeq(stack, 1, Len(stack) - 1),
          script_input |-> si]

end_document_write_transaction(stack, si) ==
    IF stack = <<>>
    THEN [result |-> "panic", stack |-> stack, script_input |-> si]
    ELSE [result |-> "ok",
          stack |-> SubSeq(stack, 1, Len(stack) - 1),
          script_input |-> move_all(stack[Len(stack)], si)]

push_script_input(si, input) == push_back(si, input)

notify_parser_blocking_script_loaded_noswap(si, input) ==
    [script_input |-> <<>>, input_stream |-> move_all(si, input)]

notify_parser_blocking_script_loaded_swaponly(si, input) ==
    [script_input |-> swap_with(si, input).self,
     input_stream |-> swap_with(si, input).other]

notify_parser_blocking_script_loaded(si, input) ==
    LET swapped == swap_with(si, input)
    IN  [script_input |-> <<>>,
         input_stream |-> move_all(swapped.self, swapped.other)]

\* ------------------------------------------------------------------ state
RECURSIVE StackChunks(_)
StackChunks(stack) ==
    IF stack = <<>> THEN 0 ELSE Len(Head(stack)) + StackChunks(Tail(stack))

TotalChunks == Len(input_stream) + Len(script_input) + StackChunks(document_write_input)

Call(op, result, fed, n) == [op |-> op, result |-> result, fed |-> fed, n |-> n]

\* parse_document: a parser with an empty input_buffer, nothing fed yet
DriverNew ==
    /\ input_buffer = <<>>
    /\ pc = "idle"
    /\ tok_result = "none"
    /\ saw_script = FALSE
    /\ feed_parity = 0
    /\ eof = FALSE

Init ==
    /\ debug_assertions \in BOOLEAN
    /\ document_write_input = <<>>
    /\ script_input = <<>>
    /\ input_stream = <<>>
    /\ parse_iter = FALSE
    /\ nWrites = 0
    /\ nEnds = 0
    /\ appended = <<>>
    /\ pure = TRUE
    /\ last = Call("new", "ok", "none", 0)
    /\ DriverNew
    /\ engine_progress = TRUE

\* ---------------------------------------------------------------- actions
StreamAppend ==
    \E data \in Texts :
        /\ TotalChunks < MaxChunks
        /\ input_stream' = append(input_stream, data)
        /\ appended' = IF pure THEN appended \o data ELSE <<>>
        /\ last' = Call("append", "ok", "none", 0)
        /\ UNCHANGED <<drv, debug_assertions, document_write_input, script_input,
                       parse_iter, nWrites, nEnds, pure>>

StreamClearAll ==
    /\ input_stream' = clear(input_stream)
    /\ script_input' = clear(script_input)
    /\ pure' = FALSE
    /\ appended' = <<>>
    /\ last' = Call("clear", "ok", "none", 0)
    /\ UNCHANGED <<drv, debug_assertions, document_write_input,
                   parse_iter, nWrites, nEnds>>

StreamClear ==
    /\ input_stream' = clear(input_stream)
    /\ pure' = FALSE
    /\ appended' = <<>>
    /\ last' = Call("clear", "ok", "none", 0)
    /\ UNCHANGED <<drv, debug_assertions, document_write_input, script_input,
                   parse_iter, nWrites, nEnds>>

Parse ==
    LET r == parse(debug_assertions, script_input)
    IN  /\ parse_iter' = (parse_iter \/ r.result = "ok")
        /\ last' = Call("parse", r.result, r.fed, 0)
        /\ UNCHANGED <<drv, debug_assertions, document_write_input, script_input,
                       input_stream, nWrites, nEnds, appended, pure>>

\* next() on the iterator parse() returned: the engine drains the input stream
ParseNext ==
    /\ parse_iter
    /\ \E f \in Feed(input_stream) :
        /\ input_stream' = f.queue
        /\ last' = Call("parse_next", f.action, "input_stream", f.consumed)
    /\ pure' = FALSE
    /\ appended' = <<>>
    /\ UNCHANGED <<drv, debug_assertions, document_write_input, script_input,
                   parse_iter, nWrites, nEnds>>

DocumentWrite ==
    \E input \in Texts :
        LET r == document_write(debug_assertions, document_write_input,
                                script_input, input)
        IN  /\ nWrites < MaxWrites
            /\ TotalChunks < MaxChunks
            /\ document_write_input' = r.stack
            /\ nWrites' = IF r.result = "ok" THEN nWrites + 1 ELSE nWrites
            /\ last' = Call("document_write", r.result, "none", 0)
            /\ UNCHANGED <<drv, debug_assertions, script_input, input_stream,
                           parse_iter, nEnds, appended, pure>>

\* next() on any sequence document_write returned
DocumentWriteNext ==
    /\ nWrites > 0
    /\ \E r \in document_write_next(document_write_input) :
        /\ document_write_input' = r.stack
        /\ last' = Call("document_write_next", r.result,
                        IF r.result = "panic" THEN "none" ELSE "document_write",
                        r.consumed)
    /\ UNCHANGED <<drv, debug_assertions, script_input, input_stream, parse_iter,
                   nWrites, nEnds, appended, pure>>

EndDocumentWriteTransaction ==
    LET r == end_document_write_transaction(document_write_input, script_input)
    IN  /\ document_write_input' = r.stack
        /\ script_input' = r.script_input
        /\ nEnds' = IF r.result = "ok" THEN nEnds + 1 ELSE nEnds
        /\ last' = Call("end_document_write_transaction", r.result, "none",
                        IF document_write_input # <<>>
                        THEN Len(document_write_input[Len(document_write_input)])
                        ELSE 0)
        /\ UNCHANGED <<drv, debug_assertions, input_stream, parse_iter, nWrites,
                       appended, pure>>

PushScriptInput ==
    \E input \in Texts :
        /\ TotalChunks < MaxChunks
        /\ script_input' = push_script_input(script_input, input)
        /\ last' = Call("push_script_input", "ok", "none", 0)
        /\ UNCHANGED <<drv, debug_assertions, document_write_input, input_stream,
                       parse_iter, nWrites, nEnds, appended, pure>>

NotifyParserBlockingScriptLoaded ==
    LET r == notify_parser_blocking_script_loaded(script_input, input_stream)
    IN  /\ script_input' = r.script_input
        /\ input_stream' = r.input_stream
        /\ pure' = FALSE
        /\ appended' = <<>>
        /\ last' = Call("notify_parser_blocking_script_loaded", "ok", "none",
                        Len(script_input))
        /\ UNCHANGED <<drv, debug_assertions, document_write_input, parse_iter,
                       nWrites, nEnds>>

Next ==
    \/ StreamAppend
    \/ StreamClear
    \/ Parse
    \/ ParseNext
    \/ DocumentWrite
    \/ DocumentWriteNext
    \/ EndDocumentWriteTransaction
    \/ PushScriptInput
    \/ NotifyParserBlockingScriptLoaded

Spec == Init /\ [][Next]_vars


\* ------------------------------------------------------ synchronous driver
\* Tokenizer::feed(&input_buffer): drains some prefix of the buffer and
\* returns Script or Done; with progress, a Script result has consumed input
TokFeed(q, progress) ==
    {[queue |-> f.queue,
      result |-> IF f.action = "some" THEN "script" ELSE "done",
      consumed |-> f.consumed] :
        f \in {g \in Feed(q) :
                 progress => (g.action = "some" => g.consumed >= 1)}}

\* while let TokenizerResult::Script(_) = self.tokenizer.feed(..) {}
loop_continues_on_done(result) == result = "done"

loop_continues_always(result) == TRUE

loop_continues(result) == result = "script"

\* assert!(self.input_buffer.is_empty()); self.tokenizer.end();
finish_end_unasserted(buf) == [result |-> "ok", eof |-> TRUE]

finish_end(buf) ==
    IF ~is_empty(buf)
    THEN [result |-> "panic", eof |-> FALSE]
    ELSE [result |-> "ok", eof |-> TRUE]

DriverInit ==
    /\ debug_assertions = TRUE
    /\ document_write_input = <<>>
    /\ script_input = <<>>
    /\ input_stream = <<>>
    /\ parse_iter = FALSE
    /\ nWrites = 0
    /\ nEnds = 0
    /\ appended = <<>>
    /\ pure = TRUE
    /\ last = Call("new", "ok", "none", 0)
    /\ DriverNew
    /\ engine_progress \in BOOLEAN

\* process(t): push the text, then enter the feed loop
DriverProcess ==
    \E t \in Texts :
        /\ pc = "idle"
        /\ Len(input_buffer) < MaxChunks
        /\ input_buffer' = push_back(input_buffer, t)
        /\ pc' = "process"
        /\ tok_result' = "none"
        /\ saw_script' = FALSE
        /\ UNCHANGED <<coord, feed_parity, eof, engine_progress>>

\* one iteration of the feed loop of process or finish
DriverFeed ==
    /\ pc \in {"process", "finish"}
    /\ \E f \in TokFeed(input_buffer, engine_progress) :
        /\ input_buffer' = f.queue
        /\ tok_result' = f.result
        /\ saw_script' = (saw_script \/ f.result = "script")
        /\ pc' = IF loop_continues(f.result) THEN pc
                 ELSE IF pc = "process" THEN "idle" ELSE "finish_assert"
    /\ feed_parity' = (feed_parity + 1) % 2
    /\ UNCHANGED <<coord, eof, engine_progress>>

\* finish(): enter the feed loop of finish
DriverFinish ==
    /\ pc = "idle"
    /\ pc' = "finish"
    /\ tok_result' = "none"
    /\ saw_script' = FALSE
    /\ UNCHANGED <<coord, input_buffer, feed_parity, eof, engine_progress>>

\* finish() after its loop: the assertion, then tokenizer.end()
DriverFinishEnd ==
    /\ pc = "finish_assert"
    /\ LET r == finish_end(input_buffer)
       IN  /\ eof' = r.eof
           /\ pc' = IF r.result = "panic" THEN "panicked" ELSE "finished"
    /\ UNCHANGED <<coord, input_buffer, tok_result, saw_script, feed_parity,
                   engine_progress>>

DriverNext ==
    \/ DriverProcess
    \/ DriverFeed
    \/ DriverFinish
    \/ DriverFinishEnd

DriverSpec == DriverInit /\ [][DriverNext]_vars

\* the feed loop is running code: it takes its next iteration
DriverFairSpec == DriverSpec /\ WF_vars(DriverFeed)

\* ------------------------------------------------------------- properties
Stack == document_write_input

Top(stack) == stack[Len(stack)]

Both == Stack # <<>> /\ script_input # <<>>

\* the queues of the stack concatenated, innermost transaction first
RECURSIVE Unwind(_)
Unwind(stack) ==
    IF stack = <<>> THEN <<>>
    ELSE Top(stack) \o Unwind(SubSeq(stack, 1, Len(stack) - 1))

\* what the input stream holds once every transaction is ended and the
\* parser is unblocked
Restorable == script_input \o Unwind(Stack) \o input_stream

\* C1: one call of notify_parser_blocking_script_loaded leaves the input
\* stream equal to the deferred content D followed by the stream content I,
\* and the deferred-script queue empty.
C1_DeferredAheadOfStream ==
    [][last'.op = "notify_parser_blocking_script_loaded"
        => /\ input_stream' = script_input \o input_stream
           /\ script_input' = <<>>]_vars

C1_Witness ==
    /\ last.op = "notify_parser_blocking_script_loaded"
    /\ last.n >= 1
    /\ Len(input_stream) > last.n
    /\ input_stream[1] # input_stream[Len(input_stream)]

\* C2: end_document_write_transaction with a non-empty stack moves the
\* chunks left in the popped queue, in order, behind everything already
\* deferred; appending Z to the input stream and unblocking then yields the
\* deferred content, the remainder, the old stream content and Z, in that order.
C2_RemainderBehindDeferred ==
    [][(last'.op = "end_document_write_transaction" /\ Stack # <<>>)
        => /\ script_input' = script_input \o Top(Stack)
           /\ input_stream' = input_stream
           /\ \A z \in Texts \ {<<>>} :
                notify_parser_blocking_script_loaded(
                    script_input', append(input_stream', z)).input_stream
                = script_input \o Top(Stack) \o input_stream \o <<z>>]_vars

C2_Witness ==
    /\ last.op = "end_document_write_transaction"
    /\ last.result = "ok"
    /\ last.n >= 1
    /\ Len(script_input) > last.n
    /\ script_input[1] # script_input[Len(script_input)]

\* C3: ending the transactions in LIFO order keeps the sequence "deferred
\* content, then the undrained chunks of the transactions (innermost first),
\* then the stream content" intact, and unblocking with no transaction left
\* makes exactly that sequence the input stream's content.
C3_LifoRestore ==
    [][/\ (last'.op = "end_document_write_transaction" /\ last'.result = "ok")
            => /\ Len(Stack') = Len(Stack) - 1
               /\ Restorable' = Restorable
       /\ (last'.op = "notify_parser_blocking_script_loaded" /\ Stack = <<>>)
            => /\ input_stream' = Restorable
               /\ script_input' = <<>>]_vars

C3_Witness ==
    /\ last.op = "end_document_write_transaction"
    /\ last.result = "ok"
    /\ last.n >= 1
    /\ Stack = <<>>
    /\ nEnds >= 2
    /\ Len(script_input) >= 2
    /\ script_input[1] # script_input[2]

\* C4: next() on a document_write sequence lets the engine drain only the
\* queue on top of the stack: the enclosing transactions' queues, the input
\* stream and the deferred-script queue are untouched.
C4_OnlyTopIsFed ==
    [][(last'.op = "document_write_next" /\ Stack # <<>>)
        => /\ last'.result # "panic"
           /\ Len(Stack') = Len(Stack)
           /\ \A i \in 1..(Len(Stack) - 1) : Stack'[i] = Stack[i]
           /\ Top(Stack') = DropChars(Top(Stack), last'.n)
           /\ script_input' = script_input
           /\ input_stream' = input_stream]_vars

C4_Witness ==
    /\ last.op = "document_write_next"
    /\ last.n >= 1
    /\ Len(Stack) >= 2
    /\ Stack[1] # <<>>
    /\ Top(Stack) = <<>>

\* C5 (as claimed): the transaction stack and the deferred-script queue are
\* never non-empty at the same time when every call passed its precondition
\* (with debug assertions a call that fails its precondition changes nothing).
C5_Original == debug_assertions => ~Both

\* C5 (amended): with debug assertions the stack and the deferred-script
\* queue become non-empty together only by push_script_input or
\* end_document_write_transaction during a transaction, never by document_write.
C5_BlockedWhileWriting ==
    [][(debug_assertions /\ Both' /\ ~Both)
        => last'.op \in {"push_script_input", "end_document_write_transaction"}]_vars

C5_Witness ==
    /\ debug_assertions
    /\ Both
    /\ last.op = "end_document_write_transaction"
    /\ last.n >= 1

\* C6: while append is the only writer, draining the input stream front to
\* back yields the concatenation of the appended texts in call order.
C6_AppendOrder == pure => Drain(input_stream) = appended

C6_Witness ==
    /\ pure
    /\ Len(input_stream) >= 2
    /\ input_stream[1] # input_stream[2]
    /\ Drain(input_stream) = appended

\* C7: end_document_write_transaction with an empty stack panics.
C7_EndWithoutTransaction ==
    [][(last'.op = "end_document_write_transaction" /\ Stack = <<>>)
        => last'.result = "panic"]_vars

C7_Witness ==
    /\ last.op = "end_document_write_transaction"
    /\ last.result = "panic"
    /\ Stack = <<>>

\* C8 (as claimed): parse and document_write are rejected whenever the
\* deferred-script queue is non-empty, and hand no queue to the engine.
C8_Original ==
    [][(last'.op \in {"parse", "document_write"} /\ script_input # <<>>)
        => /\ last'.result = "panic"
           /\ last'.fed = "none"]_vars

\* C8 (amended): in a build with debug assertions, parse and document_write
\* are rejected whenever the deferred-script queue is non-empty, and hand no
\* queue to the engine.
C8_RejectedInDebugBuild ==
    [][(debug_assertions /\ last'.op \in {"parse", "document_write"}
            /\ script_input # <<>>)
        => /\ last'.result = "panic"
           /\ last'.fed = "none"]_vars

C8_Witness ==
    /\ debug_assertions
    /\ last.op = "parse"
    /\ last.result = "panic"
    /\ script_input # <<>>
    /\ input_stream # <<>>

\* C9: a rejected parse, document_write or end_document_write_transaction
\* leaves the stack, the deferred-script queue and the input stream as they were.
C9_RejectedCallChangesNothing ==
    [][(last'.result = "panic"
            /\ last'.op \in {"parse", "document_write",
                             "end_document_write_transaction"})
        => queues' = queues]_vars

C9_Witness ==
    /\ last.op = "document_write"
    /\ last.result = "panic"
    /\ script_input # <<>>
    /\ Stack # <<>>

\* C10: a successful document_write pushes exactly one queue at the end, a
\* successful end_document_write_transaction removes exactly the last queue,
\* no other call changes the depth, and the depth is the number of
\* document_write calls minus the number of successful ends.
C10_StackIsLifo ==
    [][/\ (last'.op = "document_write" /\ last'.result = "ok")
            => /\ Len(Stack') = Len(Stack) + 1
               /\ SubSeq(Stack', 1, Len(Stack)) = Stack
       /\ (last'.op = "end_document_write_transaction" /\ last'.result = "ok")
            => Stack' = SubSeq(Stack, 1, Len(Stack) - 1)
       /\ last'.op \notin {"document_write", "end_document_write_transaction"}
            => Len(Stack') = Len(Stack)
       /\ Len(Stack') = nWrites' - nEnds']_vars

C10_Witness ==
    /\ last.op = "end_document_write_transaction"
    /\ last.result = "ok"
    /\ nWrites = 2
    /\ nEnds = 1
    /\ Len(Stack) = 1
    /\ Stack[1] # <<>>
    /\ last.n >= 1
    /\ Stack[1] # SubSeq(script_input, Len(script_input) - last.n + 1,
                          Len(script_input))

\* every chunk held by the coordinator: deferred, transactions, stream
AllChunks == script_input \o Unwind(Stack) \o input_stream

\* how many times chunk c occurs in queue q
RECURSIVE Count(_, _)
Count(q, c) ==
    IF q = <<>> THEN 0
    ELSE (IF Head(q) = c THEN 1 ELSE 0) + Count(Tail(q), c)

SameChunks(p, q) ==
    /\ Len(p) = Len(q)
    /\ \A i \in 1..Len(p) : Count(p, p[i]) = Count(q, p[i])

\* C13: the chunks held in the three kinds of queue form one collection that
\* end_document_write_transaction and notify_parser_blocking_script_loaded
\* leave as it is (nothing lost, nothing duplicated), that append,
\* document_write and push_script_input extend by exactly the text passed in,
\* and that a rejected call leaves as it is.
C13_ChunkConservation ==
    [][/\ last'.op \in {"end_document_write_transaction",
                        "notify_parser_blocking_script_loaded"}
            => SameChunks(AllChunks', AllChunks)
       /\ (last'.op \in {"append", "document_write", "push_script_input"}
                /\ last'.result = "ok")
            => \E t \in Texts : SameChunks(AllChunks', push_back(AllChunks, t))
       /\ last'.result = "panic" => AllChunks' = AllChunks]_vars

C13_Witness ==
    /\ last.op = "end_document_write_transaction"
    /\ last.result = "ok"
    /\ last.n >= 1
    /\ Stack # <<>>
    /\ Top(Stack) # <<>>
    /\ Len(AllChunks) = 2

\* C14: document_write with an empty deferred-script queue pushes one fresh
\* queue that holds exactly the text and leaves the input stream, the
\* deferred-script queue and the queues already on the stack unchanged;
\* next() on a returned sequence never changes the input stream or the
\* deferred-script queue.
C14_WriteIsPrivate ==
    [][/\ (last'.op = "document_write" /\ script_input = <<>>)
            => /\ last'.result = "ok"
               /\ Len(Stack') = Len(Stack) + 1
               /\ SubSeq(Stack', 1, Len(Stack)) = Stack
               /\ Len(Top(Stack')) <= 1
               /\ Drain(Top(Stack')) \in Texts
               /\ input_stream' = input_stream
               /\ script_input' = script_input
       /\ last'.op = "document_write_next"
            => /\ input_stream' = input_stream
               /\ script_input' = script_input]_vars

C14_Witness ==
    /\ last.op = "document_write"
    /\ last.result = "ok"
    /\ Len(Stack) = 2
    /\ Stack[1] # <<>>
    /\ Top(Stack) # <<>>
    /\ Stack[1] # Top(Stack)
    /\ script_input = <<>>

\* C16: next() on a document_write sequence while the stack is empty panics,
\* hands no queue to the engine and changes no queue.
C16_NextWithoutTransaction ==
    [][(last'.op = "document_write_next" /\ Stack = <<>>)
        => /\ last'.result = "panic"
           /\ last'.fed = "none"
           /\ queues' = queues]_vars

C16_Witness ==
    /\ last.op = "document_write_next"
    /\ last.result = "panic"
    /\ nEnds >= 1
    /\ input_stream # <<>>
    /\ script_input # <<>>

\* C17: clear() empties the input stream and nothing else; what was deferred
\* before clear() is what the next notify_parser_blocking_script_loaded
\* delivers to the input stream.
C17_ClearOnlyStream ==
    [][last'.op = "clear"
        => /\ input_stream' = <<>>
           /\ Stack' = Stack
           /\ script_input' = script_input
           /\ notify_parser_blocking_script_loaded(
                  script_input', input_stream').input_stream = script_input]_vars

C17_Witness ==
    /\ last.op = "clear"
    /\ input_stream = <<>>
    /\ script_input # <<>>
    /\ Stack # <<>>
    /\ Top(Stack) # <<>>

\* C18: notify_parser_blocking_script_loaded with an empty deferred-script
\* queue leaves the input stream as it is and the deferred-script queue
\* empty, and a second call right after any call changes nothing more.
C18_NotifyIdempotent ==
    [][last'.op = "notify_parser_blocking_script_loaded"
        => /\ script_input = <<>>
                => (input_stream' = input_stream /\ script_input' = <<>>)
           /\ LET again == notify_parser_blocking_script_loaded(
                               script_input', input_stream')
              IN  /\ again.input_stream = input_stream'
                  /\ again.script_input = script_input']_vars

C18_Witness ==
    /\ last.op = "notify_parser_blocking_script_loaded"
    /\ last.n = 0
    /\ script_input = <<>>
    /\ Len(input_stream) >= 2
    /\ input_stream[1] # input_stream[2]

\* C11: process(t) first pushes t at the back of input_buffer, before any
\* engine call; the loop goes on after every Script result, and process
\* returns only on a feed result that is not Script.
C11_ProcessReturnsOnDone ==
    [][/\ (pc = "idle" /\ pc' = "process")
            => /\ \E t \in Texts : input_buffer' = push_back(input_buffer, t)
               /\ tok_result' = "none"
       /\ (pc = "process" /\ pc' = "idle") => tok_result' = "done"
       /\ (pc = "process" /\ tok_result' = "script") => pc' = "process"]_vars

C11_Witness ==
    /\ pc = "idle"
    /\ tok_result = "done"
    /\ saw_script
    /\ input_buffer # <<>>

\* C12: tokenizer.end() is called only from finish, after its feed loop and
\* with input_buffer empty; if chunks remain finish panics and end() is
\* never called; after end() no feed call follows.
C12_EndOnlyWhenDrained ==
    [][/\ (eof' /\ ~eof)
            => /\ input_buffer = <<>>
               /\ pc = "finish_assert"
               /\ pc' = "finished"
               /\ tok_result = "done"
       /\ (pc = "finish_assert" /\ input_buffer # <<>>)
            => (pc' = "panicked" /\ ~eof')
       /\ pc = "panicked" => ~eof
       /\ eof => feed_parity' = feed_parity]_vars

C12_Witness ==
    /\ pc = "panicked"
    /\ ~eof
    /\ input_buffer # <<>>
    /\ saw_script

\* C15: when every Script result consumes input, a call of process returns.
C15_ProcessTerminates == (engine_progress /\ pc = "process") ~> (pc = "idle")

C15_Witness ==
    /\ engine_progress
    /\ pc = "idle"
    /\ tok_result = "done"
    /\ saw_script
    /\ input_buffer = <<>>
====
